---- MODULE Spec2Model ----
(***************************************************************************)
(* The execution orchestrator of the docking program: main() of            *)
(* src/main/main.cpp.  One run of the program is one behaviour: the        *)
(* options are parsed, the configuration is validated, the engine is set   *)
(* up and either the single-ligand path or the GPU batch scheduler runs.   *)
(*                                                                         *)
(* What the environment decides (the command line, the files and the       *)
(* directory it names, the CUDA device, the order in which the OpenMP      *)
(* workers finish) is drawn with \E in the action that reads it.           *)
(***************************************************************************)
EXTENDS Integers, Sequences, FiniteSets, TLC

\* ------------------------------------------------------------------ bounds
MaxLigands  == 2    \* most paths after --ligand
MaxGpuBatch == 2    \* most paths after --gpu_batch
MaxIndex    == 1    \* most paths in the --ligand_index file
MaxBatchId  == 4    \* batches formed before the model stops following the loop

\* ------------------------------------------------------ the option space
\* The options whose presence (vm.count) main() reads.
OptionNames == {"receptor", "maps", "flex", "ligand", "ligand_index", "batch",
                "gpu_batch", "dir", "out", "config"}

\* --scoring values: the three known names and one unknown name.
SfNames == {"vina", "vinardo", "ad4", "other"}

\* --max_gpu_memory values (MiB): the default 0 and a ceiling.
MaxGpuMemoryValues == {0, 16000}

\* cudaGetDeviceCount / cudaMemGetInfo: no device, or device 0 with this
\* much memory available (avail / 1024 / 1024, MiB).
AvailMiBValues == {4096, 17500, 32510}

\* int exhaustiveness = 8: the default, which every run of the model keeps.
exhaustiveness == 8

\* Atom counts of the input files: a ligand file is large or small, the
\* rigid receptor and the flexible side chains have these many atoms.
LargeLigandAtoms == 400
SmallLigandAtoms == 20
RigidAtoms == 300
FlexAtoms == 30

VARIABLES
    pc,                      \* position in main()
    exit_code,               \* -1 while running, then the process status
    outcome,                 \* why the process ended ("" while running)
    vm,                      \* the options present: vm.count(x) > 0 iff x \in vm
    sf_name,
    score_only, local_only, randomize_only,
    help, help_advanced, version,
    max_gpu_memory,
    ligand_names, batch_ligand_names, gpu_batch_ligand_names,
    out_name,
    opened,                  \* files opened and directories inspected so far
    calls,                   \* engine operations invoked so far, in order
    receptor_atom_numbers,   \* v.m_receptor.get_atoms().size()
    gpu_ligand_names,        \* the local ligand_names of the GPU branch (527)
    deviceCount, avail,      \* what the CUDA runtime answered (avail in MiB)
    max_memory,              \* the budget, in hundredths of a MiB
    use_v100, ad4,
    task,                    \* per input ligand: "todo", "parsed" or "done"
    all_ligands,             \* the shared collection of named_model pairs
    processed_ligands, batch_id, batch_size, all_atom2_numbers,
    batch_ligands,           \* models of the batch being filled
    batch_names,             \* the local batch_ligand_names of the loop (592)
    gpu_out_name,
    batches                  \* history: what each batch handed to the engine

vars == <<pc, exit_code, outcome, vm, sf_name, score_only, local_only,
          randomize_only, help, help_advanced, version, max_gpu_memory,
          ligand_names, batch_ligand_names, gpu_batch_ligand_names,
          out_name, opened, calls, receptor_atom_numbers, gpu_ligand_names,
          deviceCount, avail, max_memory, use_v100, ad4, task, all_ligands,
          processed_ligands, batch_id, batch_size, all_atom2_numbers,
          batch_ligands, batch_names, gpu_out_name, batches>>

Init ==
    /\ pc = "parse_command_line"
    /\ exit_code = -1
    /\ outcome = ""
    /\ vm = {}
    /\ sf_name = "vina"
    /\ score_only = FALSE /\ local_only = FALSE /\ randomize_only = FALSE
    /\ help = FALSE /\ help_advanced = FALSE /\ version = FALSE
    /\ max_gpu_memory = 0
    /\ ligand_names = <<>>
    /\ batch_ligand_names = <<>>
    /\ gpu_batch_ligand_names = <<>>
    /\ out_name = ""
    /\ opened = {}
    /\ calls = <<>>
    /\ receptor_atom_numbers = 0
    /\ gpu_ligand_names = <<>>
    /\ deviceCount = 0 /\ avail = 0
    /\ max_memory = 0
    /\ use_v100 = TRUE /\ ad4 = FALSE
    /\ task = <<>>
    /\ all_ligands = <<>>
    /\ processed_ligands = 0 /\ batch_id = 0 /\ batch_size = 0
    /\ all_atom2_numbers = 0
    /\ batch_ligands = <<>>
    /\ batch_names = <<>>
    /\ gpu_out_name = <<>>
    /\ batches = <<>>

\* ------------------------------------------------------------- helpers
\* The k-th path given after option opt (or listed in the index file).
Path(opt, k) == <<opt, k>>

\* The paths Path(opt, 1) .. Path(opt, n), in the order given.
Paths(opt, n) == [k \in 1..n |-> Path(opt, k)]

\* Mutant: the process ends with status 0 whatever the reason.
ExitSuccess(code, why) ==
    /\ pc' = "done"
    /\ exit_code' = 0
    /\ outcome' = why

\* exit(EXIT_FAILURE), return 1 and return 0: the process ends.
Exit(code, why) ==
    /\ pc' = "done"
    /\ exit_code' = code
    /\ outcome' = why

options == <<vm, sf_name, score_only, local_only, randomize_only, help,
             help_advanced, version, max_gpu_memory, ligand_names,
             batch_ligand_names>>

\* The state of the GPU branch.
probe == <<deviceCount, avail, max_memory, use_v100, ad4>>
loop  == <<processed_ligands, batch_id, batch_size, all_atom2_numbers,
           batch_ligands, batch_names, gpu_out_name, batches>>
gpu   == <<gpu_ligand_names, probe, task, all_ligands, loop>>
engine == <<calls, receptor_atom_numbers>>

\* The values enumerated for a mode switch and for --max_gpu_memory.  A
\* command line that asks for the help text or the version returns at
\* 313-325, before anything reads them: it is enumerated with their defaults
\* only, with every combination of the options and scoring functions.
ModeValues(info) == IF info = "" THEN BOOLEAN ELSE {FALSE}
CeilingValues(info) == IF info = "" THEN MaxGpuMemoryValues ELSE {0}

\* ------------------------------------------------- option parsing (286-325)
\* store(command_line_parser(...).run(), vm); notify(vm).  vm holds the
\* options of the command line together with those of the configuration
\* file: between the two store calls main() reads only vm.count("config").
ParseCommandLine ==
    /\ pc = "parse_command_line"
    /\ \/ /\ Exit(1, "command_line_parse_error")
          /\ UNCHANGED <<options, gpu_batch_ligand_names, out_name, opened, engine, gpu>>
       \/ \E opts \in SUBSET OptionNames, sf \in SfNames,
             info \in {"", "help", "help_advanced", "version"} :
          \E so \in ModeValues(info), lo \in ModeValues(info),
             ro \in ModeValues(info), mgm \in CeilingValues(info) :
          \E nl \in IF "ligand" \in opts THEN 1..MaxLigands ELSE {0},
             ng \in IF "gpu_batch" \in opts THEN 1..MaxGpuBatch ELSE {0} :
             /\ vm' = opts
             /\ sf_name' = sf
             /\ score_only' = so /\ local_only' = lo /\ randomize_only' = ro
             /\ help' = (info = "help")
             /\ help_advanced' = (info = "help_advanced")
             /\ version' = (info = "version")
             /\ max_gpu_memory' = mgm
             /\ ligand_names' = Paths("ligand", nl)
             /\ batch_ligand_names' =
                    Paths("batch", IF "batch" \in opts THEN 1 ELSE 0)
             /\ gpu_batch_ligand_names' = Paths("gpu_batch", ng)
             /\ out_name' = IF "out" \in opts THEN "out" ELSE ""
             /\ pc' = "parse_config_file"
             /\ UNCHANGED <<exit_code, outcome, opened, engine, gpu>>

\* if (vm.count("config")) { ifile config_stream(name); store(parse_config_file ...
ParseConfigFile ==
    /\ pc = "parse_config_file"
    /\ IF "config" \in vm
       THEN /\ opened' = opened \cup {"config"}
            /\ \/ Exit(1, "config_file_error")          \* ifile throws file_error
               \/ Exit(1, "config_file_parse_error")
               \/ /\ pc' = "info"
                  /\ UNCHANGED <<exit_code, outcome>>
       ELSE /\ pc' = "info"
            /\ UNCHANGED <<exit_code, outcome, opened>>
    /\ UNCHANGED <<options, gpu_batch_ligand_names, out_name, engine, gpu>>

\* if (help) return 0; if (help_advanced) return 0; if (version) return 0;
InfoFlags ==
    /\ pc = "info"
    /\ IF help THEN Exit(0, "help")
       ELSE IF help_advanced THEN Exit(0, "help_advanced")
       ELSE IF version THEN Exit(0, "version")
       ELSE /\ pc' = "receptor_maps"
            /\ UNCHANGED <<exit_code, outcome>>
    /\ UNCHANGED <<options, gpu_batch_ligand_names, out_name, opened, engine, gpu>>

\* ------------------------------------------------------ validation (331-396)
\* Mutant: the exclusivity of receptor and maps is not checked.
ReceptorMapsConflictUnchecked(v) == FALSE

\* vm.count("receptor") && vm.count("maps")
ReceptorMapsConflict(v) == "receptor" \in v /\ "maps" \in v

CheckReceptorMaps ==
    /\ pc = "receptor_maps"
    /\ IF ReceptorMapsConflict(vm)
       THEN Exit(1, "receptor_and_maps")
       ELSE /\ pc' = "scoring_function"
            /\ UNCHANGED <<exit_code, outcome>>
    /\ UNCHANGED <<options, gpu_batch_ligand_names, out_name, opened, engine, gpu>>

\* Mutant: ad4 is not required to come with maps.
ScoringFunctionErrorMapsOptional(sf, v) ==
    IF sf = "vina" \/ sf = "vinardo"
    THEN IF "receptor" \notin v /\ "maps" \notin v
         THEN "receptor_or_maps_missing" ELSE ""
    ELSE IF sf = "ad4"
    THEN IF "receptor" \in v THEN "ad4_receptor" ELSE ""
    ELSE "scoring_function_unknown"

\* The scoring-function requirements: the rule violated, "" when none is.
ScoringFunctionError(sf, v) ==
    IF sf = "vina" \/ sf = "vinardo"
    THEN IF "receptor" \notin v /\ "maps" \notin v
         THEN "receptor_or_maps_missing" ELSE ""
    ELSE IF sf = "ad4"
    THEN IF "receptor" \in v THEN "ad4_receptor"
         ELSE IF "maps" \notin v THEN "ad4_maps_missing"
         ELSE ""
    ELSE "scoring_function_unknown"

CheckScoringFunction ==
    /\ pc = "scoring_function"
    /\ IF ScoringFunctionError(sf_name, vm) # ""
       THEN Exit(1, ScoringFunctionError(sf_name, vm))
       ELSE /\ pc' = "ligand_source"
            /\ UNCHANGED <<exit_code, outcome>>
    /\ UNCHANGED <<options, gpu_batch_ligand_names, out_name, opened, engine, gpu>>

\* Mutant: --ligand is accepted together with --batch / --gpu_batch.
LigandSourceErrorMixAllowed(v) ==
    IF "ligand" \notin v /\ "batch" \notin v /\ "gpu_batch" \notin v
       /\ "ligand_index" \notin v
    THEN "ligands_missing"
    ELSE IF ("batch" \in v \/ "gpu_batch" \in v) /\ "dir" \notin v
    THEN "batch_without_dir"
    ELSE ""

\* The first three arms of the ligand-source chain: the rule violated, "".
LigandSourceError(v) ==
    IF "ligand" \notin v /\ "batch" \notin v /\ "gpu_batch" \notin v
       /\ "ligand_index" \notin v
    THEN "ligands_missing"
    ELSE IF "ligand" \in v /\ ("batch" \in v \/ "gpu_batch" \in v)
    THEN "ligand_and_batch"
    ELSE IF ("batch" \in v \/ "gpu_batch" \in v) /\ "dir" \notin v
    THEN "batch_without_dir"
    ELSE ""

\* The fourth arm, else if (vm.count("dir")): is_directory(out_dir) is what
\* the file system answers.  The fifth arm (the warning) is never reached.
CheckLigandSource ==
    /\ pc = "ligand_source"
    /\ IF LigandSourceError(vm) # ""
       THEN /\ Exit(1, LigandSourceError(vm))
            /\ UNCHANGED opened
       ELSE IF "dir" \in vm
       THEN /\ opened' = opened \cup {"dir"}
            /\ \/ Exit(1, "dir_does_not_exist")
               \/ /\ pc' = "output_name"
                  /\ UNCHANGED <<exit_code, outcome>>
       ELSE /\ pc' = "output_name"
            /\ UNCHANGED <<exit_code, outcome, opened>>
    /\ UNCHANGED <<options, gpu_batch_ligand_names, out_name, engine, gpu>>

\* if (!score_only) { out_name = default_output(ligand_names[0]) or fail }
CheckOutputName ==
    /\ pc = "output_name"
    /\ IF ~score_only /\ "out" \notin vm /\ Len(ligand_names) = 1
       THEN /\ out_name' = "default_output"
            /\ pc' = "ligand_index"
            /\ UNCHANGED <<exit_code, outcome>>
       ELSE IF ~score_only /\ "out" \notin vm /\ Len(ligand_names) >= 1
       THEN /\ Exit(1, "output_name_missing")
            /\ UNCHANGED out_name
       ELSE /\ pc' = "ligand_index"
            /\ UNCHANGED <<exit_code, outcome, out_name>>
    /\ UNCHANGED <<options, gpu_batch_ligand_names, opened, engine, gpu>>

\* Mutant: the entries of the index file are put in front of the list.
FoldIndexInFront(list, entries) == entries \o list

\* while (index_file >> ligand_name) gpu_batch_ligand_names.push_back(...)
FoldIndex(list, entries) == list \o entries

\* if (vm.count("ligand_index")) { ... gpu_batch_ligand_names.push_back(...) }
ReadLigandIndex ==
    /\ pc = "ligand_index"
    /\ IF "ligand_index" \in vm
       THEN /\ opened' = opened \cup {"ligand_index"}
            /\ \/ /\ Exit(1, "ligand_index_file_error")  \* throw file_error
                  /\ UNCHANGED gpu_batch_ligand_names
               \/ \E n \in 0..MaxIndex :
                     /\ gpu_batch_ligand_names' =
                            FoldIndex(gpu_batch_ligand_names, Paths("ligand_index", n))
                     /\ pc' = "engine"
                     /\ UNCHANGED <<exit_code, outcome>>
       ELSE /\ pc' = "engine"
            /\ UNCHANGED <<exit_code, outcome, opened, gpu_batch_ligand_names>>
    /\ UNCHANGED <<options, out_name, engine, gpu>>

\* ------------------------------------------------- engine set-up (445-468)
\* Vina v(sf_name, cpu, seed, verbosity, no_refine);
ConstructVina ==
    /\ pc = "engine"
    /\ calls' = Append(calls, "Vina")
    /\ pc' = "set_receptor"
    /\ UNCHANGED <<exit_code, outcome, options, gpu_batch_ligand_names,
                   out_name, opened, receptor_atom_numbers, gpu>>

\* Mutant: only a rigid receptor path makes the run load a receptor.
NeedsReceptorRigidOnly(v) == "receptor" \in v

\* vm.count("receptor") || vm.count("flex")
NeedsReceptor(v) == "receptor" \in v \/ "flex" \in v

\* The atoms v.m_receptor holds after set_receptor(rigid_name, flex_name).
ReceptorAtoms(v) ==
    (IF "receptor" \in v THEN RigidAtoms ELSE 0)
        + (IF "flex" \in v THEN FlexAtoms ELSE 0)

SetReceptor ==
    /\ pc = "set_receptor"
    /\ IF NeedsReceptor(vm)
       THEN /\ calls' = Append(calls, "set_receptor")
            /\ opened' = opened \cup {"receptor"}
            /\ receptor_atom_numbers' = ReceptorAtoms(vm)
       ELSE UNCHANGED <<calls, opened, receptor_atom_numbers>>
    /\ pc' = "weights"
    /\ UNCHANGED <<exit_code, outcome, options, gpu_batch_ligand_names,
                   out_name, gpu>>

\* set_*_weights; for ad4 also v.load_maps(maps).
SetWeights ==
    /\ pc = "weights"
    /\ IF sf_name = "vina"
       THEN /\ calls' = Append(calls, "set_vina_weights")
            /\ UNCHANGED opened
       ELSE IF sf_name = "vinardo"
       THEN /\ calls' = Append(calls, "set_vinardo_weights")
            /\ UNCHANGED opened
       ELSE /\ calls' = calls \o <<"set_ad4_weights", "load_maps">>
            /\ opened' = opened \cup {"maps"}
    /\ pc' = "dispatch"
    /\ UNCHANGED <<exit_code, outcome, options, gpu_batch_ligand_names,
                   out_name, receptor_atom_numbers, gpu>>

\* ------------------------------------------------------ dispatch (470, 508)
\* if (vm.count("ligand")) ... else if (vm.count("gpu_batch") ||
\* vm.count("ligand_index")) ...; with neither, main() falls off the end.
Branch(v) ==
    IF "ligand" \in v THEN "single"
    ELSE IF "gpu_batch" \in v \/ "ligand_index" \in v THEN "gpu"
    ELSE "none"

Dispatch ==
    /\ pc = "dispatch"
    /\ IF Branch(vm) = "single"
       THEN /\ pc' = "set_ligand_from_file" /\ UNCHANGED <<exit_code, outcome>>
       ELSE IF Branch(vm) = "gpu"
       THEN /\ pc' = "gpu_mode_guard" /\ UNCHANGED <<exit_code, outcome>>
       ELSE Exit(0, "no_branch")
    /\ UNCHANGED <<options, gpu_batch_ligand_names, out_name, opened, engine, gpu>>

\* ------------------------------------------- the single-ligand path (471-507)
SetLigandFromFile ==
    /\ pc = "set_ligand_from_file"
    /\ calls' = Append(calls, "set_ligand_from_file")
    /\ opened' = opened \cup {"ligand"}
    /\ pc' = "single_maps"
    /\ UNCHANGED <<exit_code, outcome, options, gpu_batch_ligand_names,
                   out_name, receptor_atom_numbers, gpu>>

\* Mutant: the maps given with --maps are not loaded.
VinaMapCallsNoLoad(sf, v) ==
    IF (sf = "vina" \/ sf = "vinardo") /\ "maps" \notin v
    THEN <<"compute_vina_maps">>
    ELSE <<>>

\* The map set-up of a vina/vinardo run: the engine calls it makes.
VinaMapCalls(sf, v) ==
    IF sf = "vina" \/ sf = "vinardo"
    THEN IF "maps" \in v THEN <<"load_maps">> ELSE <<"compute_vina_maps">>
    ELSE <<>>

SingleMaps ==
    /\ pc = "single_maps"
    /\ calls' = calls \o VinaMapCalls(sf_name, vm)
    /\ opened' = IF "load_maps" \in {VinaMapCalls(sf_name, vm)[i] :
                                     i \in 1..Len(VinaMapCalls(sf_name, vm))}
                 THEN opened \cup {"maps"} ELSE opened
    /\ pc' = "single_mode"
    /\ UNCHANGED <<exit_code, outcome, options, gpu_batch_ligand_names,
                   out_name, receptor_atom_numbers, gpu>>

\* Mutant: score_only is tested before randomize_only.
ModeCallsScoreFirst(ro, so, lo) ==
    IF so THEN <<"score", "show_score">>
    ELSE IF ro THEN <<"randomize", "write_pose">>
    ELSE IF lo THEN <<"optimize", "write_pose", "show_score">>
    ELSE <<"global_search", "write_poses">>

\* Mutant: the score_only branch writes the pose as the local_only one does.
ModeCallsScoreWritesPose(ro, so, lo) ==
    IF ro THEN <<"randomize", "write_pose">>
    ELSE IF so THEN <<"score", "write_pose", "show_score">>
    ELSE IF lo THEN <<"optimize", "write_pose", "show_score">>
    ELSE <<"global_search", "write_poses">>

\* if (randomize_only) ... else if (score_only) ... else if (local_only) ...
\* else global search: the engine calls of the branch taken.
ModeCalls(ro, so, lo) ==
    IF ro THEN <<"randomize", "write_pose">>
    ELSE IF so THEN <<"score", "show_score">>
    ELSE IF lo THEN <<"optimize", "write_pose", "show_score">>
    ELSE <<"global_search", "write_poses">>

SingleMode ==
    /\ pc = "single_mode"
    /\ calls' = calls \o ModeCalls(randomize_only, score_only, local_only)
    /\ Exit(0, "single_done")
    /\ UNCHANGED <<options, gpu_batch_ligand_names, out_name, opened,
                   receptor_atom_numbers, gpu>>

\* ------------------------------------------------ the predictor (69-80)
\* c * x / 10^7 split into whole MiB and a remainder in units of 10^-7 MiB,
\* without a product beyond 32 bits (x < 10^7, c < 2 * 10^7 for x < 100).
Scaled(c, x) ==
    LET hi  == c * (x \div 1000)
        low == (hi % 10000) * 1000 + c * (x % 1000)
    IN  [whole |-> hi \div 10000 + low \div 10000000, frac |-> low % 10000000]

\* The affine form c0*batch_size + c1*exhaustiveness*batch_size + c2*cost + c3
\* with coefficients in units of 10^-7, truncated to int as the return does.
Affine(c0, c1, c2, c3whole, c3frac, bs, ex, cost) ==
    LET t0 == Scaled(c0, bs)
        t1 == Scaled(c1, ex * bs)
        t2 == Scaled(c2, cost)
    IN  c3whole + t0.whole + t1.whole + t2.whole
            + (c3frac + t0.frac + t1.frac + t2.frac) \div 10000000

predict_peak_memory(bs, ex, cost, v100, isAd4) ==
    IF v100
    THEN IF isAd4
         THEN Affine(19116450, 39108, 792161, 20052, 6400000, bs, ex, cost)
         ELSE Affine(12148690, 38522, 119780, 20017, 7200000, bs, ex, cost)
    ELSE Affine(11660670, 38676, 119598, 5313, 8480000, bs, ex, cost)

\* ------------------------------------------------- the GPU branch (508-552)
\* Mutant: local_only is not part of the guard.
GpuModeUnavailableButLocal(ro, so, lo) == ro \/ so

\* if (randomize_only || score_only || local_only) return 0;
GpuModeUnavailable(ro, so, lo) == ro \/ so \/ lo

GpuModeGuard ==
    /\ pc = "gpu_mode_guard"
    /\ IF GpuModeUnavailable(randomize_only, score_only, local_only)
       THEN Exit(0, "not_available_under_gpu_batch")
       ELSE /\ pc' = "gpu_maps" /\ UNCHANGED <<exit_code, outcome>>
    /\ UNCHANGED <<options, gpu_batch_ligand_names, out_name, opened, engine, gpu>>

\* v.enable_gpu(); then the maps of a vina/vinardo run.
GpuMaps ==
    /\ pc = "gpu_maps"
    /\ calls' = (calls \o <<"enable_gpu">>) \o VinaMapCalls(sf_name, vm)
    /\ opened' = IF (sf_name = "vina" \/ sf_name = "vinardo") /\ "maps" \in vm
                 THEN opened \cup {"maps"} ELSE opened
    /\ pc' = "probe"
    /\ UNCHANGED <<exit_code, outcome, options, gpu_batch_ligand_names,
                   out_name, receptor_atom_numbers, gpu>>

\* float max_memory = 32000, replaced by avail / 1024 / 1024 * 0.95 when a
\* device is present; in hundredths of a MiB.
ProbedMemory(dc, av) == IF dc > 0 THEN av * 95 ELSE 3200000

\* if (max_memory < 17000) use_v100 = false;
HighMemoryClass(mm) == ~(mm < 1700000)

\* Mutant: the ceiling is applied without testing that it is positive.
ClampedWithoutPositiveTest(mgm, mm) == IF mgm * 100 < mm THEN mgm * 100 ELSE mm

\* if (max_gpu_memory > 0 && max_gpu_memory < max_memory) max_memory = ...
Clamped(mgm, mm) == IF mgm > 0 /\ mgm * 100 < mm THEN mgm * 100 ELSE mm

\* Lines 527-555: the ligand list is moved, the device is probed, the
\* budget and the device class are set.
Probe ==
    /\ pc = "probe"
    /\ \E dc \in {0, 1} :
       \E av \in IF dc > 0 THEN AvailMiBValues ELSE {0} :
          /\ deviceCount' = dc
          /\ avail' = av
          /\ use_v100' = HighMemoryClass(ProbedMemory(dc, av))
          /\ max_memory' = Clamped(max_gpu_memory, ProbedMemory(dc, av))
    /\ ad4' = (sf_name = "ad4")
    /\ gpu_ligand_names' = gpu_batch_ligand_names
    /\ gpu_batch_ligand_names' = <<>>
    /\ processed_ligands' = 0
    /\ all_ligands' = <<>>
    /\ task' = [i \in 1..Len(gpu_batch_ligand_names) |-> "todo"]
    /\ pc' = "parse_ligands"
    /\ UNCHANGED <<exit_code, outcome, options, out_name, opened, engine,
                   batch_id, batch_size, all_atom2_numbers, batch_ligands,
                   batch_names, gpu_out_name, batches>>

\* ------------------------------------------- concurrent parsing (556-563)
\* The atoms in the ligand file at a path: the odd-numbered files are large.
LigandAtoms(path) ==
    IF path[2] % 2 = 1 THEN LargeLigandAtoms ELSE SmallLigandAtoms

\* The model parse_ligand_pdbqt_from_file_no_failure returns for a path.
ParsedModel(path) == [source |-> path, atoms |-> LigandAtoms(path)]

\* A worker parses the file of iteration i ...
ParseLigand(i) ==
    /\ pc = "parse_ligands"
    /\ task[i] = "todo"
    /\ task' = [task EXCEPT ![i] = "parsed"]
    /\ opened' = opened \cup {"ligand"}
    /\ UNCHANGED <<pc, exit_code, outcome, options, gpu_batch_ligand_names,
                   out_name, engine, gpu_ligand_names, probe, all_ligands, loop>>

\* Mutant: without the critical section two appends race and the later one
\* overwrites the slot the earlier one filled.
EmplaceBackUnprotected(collection, name, parsed) ==
    IF collection = <<>>
    THEN <<[first |-> name, second |-> parsed]>>
    ELSE [collection EXCEPT ![Len(collection)] = [first |-> name, second |-> parsed]]

\* all_ligands.emplace_back(std::make_pair(ligand, l)) under omp critical.
EmplaceBack(collection, name, parsed) ==
    Append(collection, [first |-> name, second |-> parsed])

\* ... and appends the pair under #pragma omp critical.
AppendLigand(i) ==
    /\ pc = "parse_ligands"
    /\ task[i] = "parsed"
    /\ all_ligands' = EmplaceBack(all_ligands, gpu_ligand_names[i],
                                  ParsedModel(gpu_ligand_names[i]))
    /\ task' = [task EXCEPT ![i] = "done"]
    /\ UNCHANGED <<pc, exit_code, outcome, options, gpu_batch_ligand_names,
                   out_name, opened, engine, gpu_ligand_names, probe, loop>>

\* The end of the parallel region; int batch_id = 0;
JoinWorkers ==
    /\ pc = "parse_ligands"
    /\ \A i \in 1..Len(task) : task[i] = "done"
    /\ batch_id' = 0
    /\ pc' = "batch_loop"
    /\ UNCHANGED <<exit_code, outcome, options, gpu_batch_ligand_names,
                   out_name, opened, engine, gpu_ligand_names, probe, task,
                   all_ligands, processed_ligands, batch_size,
                   all_atom2_numbers, batch_ligands, batch_names,
                   gpu_out_name, batches>>

\* ----------------------------------------------- the batch loop (570-609)
\* while (processed_ligands < ligand_names.size())
MoreLigands(processed, n) == processed < n

\* Lines 570-576: a new batch starts, or the loop and the run end.
BeginBatch ==
    /\ pc = "batch_loop"
    /\ IF MoreLigands(processed_ligands, Len(gpu_ligand_names))
       THEN /\ batch_id < MaxBatchId
            /\ batch_id' = batch_id + 1
            /\ calls' = Append(calls, "Vina(v)")
            /\ batch_size' = 0
            /\ all_atom2_numbers' = 0
            /\ batch_ligands' = <<>>
            /\ pc' = "fill_batch"
            /\ UNCHANGED <<exit_code, outcome>>
       ELSE /\ Exit(0, "gpu_done")
            /\ UNCHANGED <<calls, batch_id, batch_size, all_atom2_numbers,
                           batch_ligands>>
    /\ UNCHANGED <<options, gpu_batch_ligand_names, out_name, opened,
                   receptor_atom_numbers, gpu_ligand_names, probe, task,
                   all_ligands, processed_ligands, batch_names, gpu_out_name,
                   batches>>

\* Mutant: the inner while tests only that a ligand is left.
KeepFillingNoMemoryTest(bs, cost, processed, n, mm, v100, isAd4) ==
    processed + bs < n

\* The condition of the inner while (577-578); mm in hundredths of a MiB.
KeepFilling(bs, cost, processed, n, mm, v100, isAd4) ==
    /\ predict_peak_memory(bs, exhaustiveness, cost, v100, isAd4) * 100 < mm
    /\ processed + bs < n

\* next_atom_numbers * next_atom_numbers
NextAtom2(model, receptor_atoms) ==
    (model.atoms + receptor_atoms) * (model.atoms + receptor_atoms)

\* Mutant: the batch's offset into the collection is forgotten.
NextLigandIndexNoOffset(processed, bs) == bs + 1

\* Mutant: the position inside the batch is forgotten.
NextLigandIndexNoBatchSize(processed, bs) == processed + 1

\* The place in all_ligands of the ligand the inner while takes next
\* (all_ligands[processed_ligands + batch_size], counted from 1 here).
NextLigandIndex(processed, bs) == processed + bs + 1

\* One pass of the inner while body (580-587).
AddLigand ==
    /\ pc = "fill_batch"
    /\ KeepFilling(batch_size, all_atom2_numbers, processed_ligands,
                   Len(gpu_ligand_names), max_memory, use_v100, ad4)
    /\ batch_ligands' =
           Append(batch_ligands, all_ligands[NextLigandIndex(processed_ligands, batch_size)].second)
    /\ all_atom2_numbers' = all_atom2_numbers
           + NextAtom2(all_ligands[NextLigandIndex(processed_ligands, batch_size)].second,
                       receptor_atom_numbers)
    /\ batch_size' = batch_size + 1
    /\ UNCHANGED <<pc, exit_code, outcome, options, gpu_batch_ligand_names,
                   out_name, opened, engine, gpu_ligand_names, probe, task,
                   all_ligands, processed_ligands, batch_id, batch_names,
                   gpu_out_name, batches>>

\* default_output(get_filename(name), out_dir)
DefaultOutput(name, dir) == [dir |-> dir, stem |-> name]

\* Mutant: the names are read from the start of the collection.
BatchNamesFromStart(ligands, processed, size) ==
    [k \in 1..size |-> ligands[k].first]

\* The names all_ligands[processed] .. all_ligands[processed + size - 1].
BatchNames(ligands, processed, size) ==
    [k \in 1..size |-> ligands[processed + k].first]

\* The inner while ends; lines 589-602 name the batch and its outputs and
\* advance processed_ligands.
CloseBatch ==
    /\ pc = "fill_batch"
    /\ ~KeepFilling(batch_size, all_atom2_numbers, processed_ligands,
                    Len(gpu_ligand_names), max_memory, use_v100, ad4)
    /\ batch_names' = BatchNames(all_ligands, processed_ligands, batch_size)
    /\ processed_ligands' = processed_ligands + batch_size
    /\ gpu_out_name' =
           [k \in 1..batch_size |->
               DefaultOutput(BatchNames(all_ligands, processed_ligands, batch_size)[k],
                             "dir" \in vm)]
    /\ pc' = "run_batch"
    /\ UNCHANGED <<exit_code, outcome, options, gpu_batch_ligand_names,
                   out_name, opened, engine, gpu_ligand_names, probe, task,
                   all_ligands, batch_id, batch_size, all_atom2_numbers,
                   batch_ligands, batches>>

\* Mutant: the poses are written before the search has run.
GpuBatchCallsWriteFirst ==
    <<"set_ligand_from_object_gpu", "write_poses_gpu", "global_search_gpu">>

\* The engine calls of one batch, in the order of lines 603-605.
GpuBatchCalls ==
    <<"set_ligand_from_object_gpu", "global_search_gpu", "write_poses_gpu">>

\* Lines 603-605: the three engine calls of the batch, one after the other:
\* v1.set_ligand_from_object_gpu(batch_ligands);
\* v1.global_search_gpu(..., batch_ligand_names.size(), seed);
\* v1.write_poses_gpu(gpu_out_name, num_modes, energy_range);
RunBatch ==
    /\ pc = "run_batch"
    /\ calls' = calls \o GpuBatchCalls
    /\ batches' = Append(batches, [id |-> batch_id, models |-> batch_ligands,
                                   names |-> batch_names, cost |-> all_atom2_numbers,
                                   count |-> Len(batch_names), out |-> gpu_out_name])
    /\ pc' = "batch_loop"
    /\ UNCHANGED <<exit_code, outcome, options, gpu_batch_ligand_names,
                   out_name, opened, receptor_atom_numbers, gpu_ligand_names,
                   probe, task, all_ligands, processed_ligands, batch_id,
                   batch_size, all_atom2_numbers, batch_ligands, batch_names,
                   gpu_out_name>>

Next ==
    \/ ParseCommandLine
    \/ ParseConfigFile
    \/ InfoFlags
    \/ CheckReceptorMaps
    \/ CheckScoringFunction
    \/ CheckLigandSource
    \/ CheckOutputName
    \/ ReadLigandIndex
    \/ ConstructVina
    \/ SetReceptor
    \/ SetWeights
    \/ Dispatch
    \/ SetLigandFromFile
    \/ SingleMaps
    \/ SingleMode
    \/ GpuModeGuard
    \/ GpuMaps
    \/ Probe
    \/ \E i \in 1..Len(task) : ParseLigand(i)
    \/ \E i \in 1..Len(task) : AppendLigand(i)
    \/ JoinWorkers
    \/ BeginBatch
    \/ AddLigand
    \/ CloseBatch
    \/ RunBatch

Spec == Init /\ [][Next]_vars

\* ================================================================ claims
\* What the engine was handed, batch after batch.
BatchSize(k) == Len(batches[k].models)

RECURSIVE FlatModels(_)
\* The models of batches 1..k, in the order they were submitted.
FlatModels(k) == IF k = 0 THEN <<>> ELSE FlatModels(k - 1) \o batches[k].models

RECURSIVE SumSizes(_)
SumSizes(k) == IF k = 0 THEN 0 ELSE SumSizes(k - 1) + BatchSize(k)

\* The batches that were handed the model parsed from a path.
BatchesOf(path) ==
    {k \in 1..Len(batches) :
        \E m \in 1..BatchSize(k) : batches[k].models[m].source = path}

Max(S) == CHOOSE x \in S : \A y \in S : y <= x
Min(S) == CHOOSE x \in S : \A y \in S : x <= y
FirstBatchOf(path) == IF BatchesOf(path) = {} THEN 0 ELSE Min(BatchesOf(path))
LastBatchOf(path) == IF BatchesOf(path) = {} THEN 0 ELSE Max(BatchesOf(path))

\* The scheduler ran to the end of its loop.
SchedulerFinished == pc = "done" /\ outcome = "gpu_done"

\* C1: every batch handed to set_ligand_from_object_gpu / global_search_gpu
\* holds at least one ligand, whatever the budget.
C1_BatchNeverEmpty ==
    \A k \in 1..Len(batches) : BatchSize(k) >= 1

\* C2: every outer iteration of the batch loop strictly increases
\* processed_ligands, so the loop terminates.
C2_EveryBatchAdvances ==
    [][(pc = "fill_batch" /\ pc' = "run_batch")
          => processed_ligands' > processed_ligands]_vars

\* C3: when the scheduler finishes, the batches are consecutive index ranges
\* of the parsed collection that cover it once: the submitted models, batch
\* after batch, are the collection's models in order, every input path was
\* submitted in exactly one batch and the sizes add up to the ligand count.
C3_BatchesPartitionLigands ==
    SchedulerFinished =>
        /\ FlatModels(Len(batches)) =
               [i \in 1..Len(all_ligands) |-> all_ligands[i].second]
        /\ \A i \in 1..Len(gpu_ligand_names) :
               Cardinality(BatchesOf(gpu_ligand_names[i])) = 1
        /\ \A k \in 1..Len(batches) :
               Cardinality({batches[k].models[m].source : m \in 1..BatchSize(k)})
                   = BatchSize(k)
        /\ SumSizes(Len(batches)) = Len(gpu_ligand_names)

\* C3 witness: a finished run of three ligands in two batches, one of them
\* holding two ligands.
C3_Witness ==
    /\ SchedulerFinished
    /\ Len(gpu_ligand_names) = 3
    /\ Len(batches) = 2
    /\ \E k \in 1..Len(batches) : BatchSize(k) = 2

C5_MultiLigandBatchWithinBudget ==
    \A k \in 1..Len(batches) :
        BatchSize(k) >= 2 =>
            predict_peak_memory(BatchSize(k), exhaustiveness, batches[k].cost,
                                use_v100, ad4) * 100 < max_memory

\* ---------------------------------------------------------- validation
\* The ways validation (331-396) rejects a configuration.
ValidationErrors ==
    {"receptor_and_maps", "receptor_or_maps_missing", "ad4_receptor",
     "ad4_maps_missing", "scoring_function_unknown", "ligands_missing",
     "ligand_and_batch", "batch_without_dir", "dir_does_not_exist",
     "output_name_missing"}

\* The ways a run ends before validation starts.
EarlyExits ==
    {"command_line_parse_error", "config_file_error",
     "config_file_parse_error", "help", "help_advanced", "version"}

\* The positions up to the last validation rule.
ValidationPositions ==
    {"parse_command_line", "parse_config_file", "info", "receptor_maps",
     "scoring_function", "ligand_source", "output_name"}

ValidationFailed == pc = "done" /\ outcome \in ValidationErrors

ValidationPassed ==
    /\ pc \notin ValidationPositions
    /\ ~(pc = "done" /\ outcome \in ValidationErrors \cup EarlyExits)

ValidationOver == ValidationFailed \/ ValidationPassed

\* C6 as claimed: with ad4, validation fails iff a receptor path is present
\* or no maps path is present, whatever the other options are.
C6_Ad4ValidationFailsIff ==
    (sf_name = "ad4" /\ ValidationOver) =>
        (ValidationFailed <=> ("receptor" \in vm \/ "maps" \notin vm))

\* C6 amended: with ad4, whenever validation runs, a receptor path or a
\* missing maps path makes it fail, and the receptor/maps rules (the
\* exclusivity rule and the ad4 requirements) are the ones that reject
\* exactly these configurations; the other rules can still reject.
C6_Ad4ReceptorMapsRulesIff ==
    (sf_name = "ad4" /\ ValidationOver) =>
        /\ (outcome \in {"receptor_and_maps", "ad4_receptor", "ad4_maps_missing"})
               <=> ("receptor" \in vm \/ "maps" \notin vm)
        /\ ("receptor" \in vm \/ "maps" \notin vm) => ValidationFailed

\* C6 witness: an ad4 run without maps and without receptor was rejected.
C6_Witness ==
    /\ sf_name = "ad4"
    /\ outcome = "ad4_maps_missing"
    /\ "receptor" \notin vm /\ "maps" \notin vm

LigandWithBatch == "ligand" \in vm /\ ("batch" \in vm \/ "gpu_batch" \in vm)

\* C7 as claimed: every run with --ligand and --batch / --gpu_batch ends with
\* a failure status, with no engine object, no ligand loaded, no search run.
C7_LigandWithBatchFails ==
    LigandWithBatch =>
        /\ calls = <<>>
        /\ "ligand" \notin opened
        /\ pc = "done" => exit_code = 1

\* C7 amended: such a run never gets past the ligand-source rule and makes
\* no engine call; it ends with a failure status unless the display asked
\* for by --help, --help_advanced or --version ended it with status 0 before
\* validation.
C7_LigandWithBatchRejected ==
    LigandWithBatch =>
        /\ calls = <<>>
        /\ "ligand" \notin opened
        /\ pc \in (ValidationPositions \ {"output_name"}) \cup {"done"}
        /\ pc = "done" =>
               \/ exit_code = 1
               \/ exit_code = 0 /\ outcome \in {"help", "help_advanced", "version"}

\* C7 witness: the ligand-source rule rejected --ligand with a batch option.
C7_Witness ==
    /\ LigandWithBatch
    /\ outcome = "ligand_and_batch"
    /\ exit_code = 1

\* The ligand-source variants that hold at least one path.
PopulatedSources ==
    {x \in {"SingleSet", "CpuBatch", "GpuBatch"} :
        \/ x = "SingleSet" /\ ligand_names # <<>>
        \/ x = "CpuBatch" /\ batch_ligand_names # <<>>
        \/ x = "GpuBatch" /\ gpu_batch_ligand_names # <<>>}

\* C8: once validation has succeeded and the index file is folded in,
\* exactly one of the three ligand lists is non-empty.
C8_ExactlyOneLigandSource ==
    pc = "engine" => Cardinality(PopulatedSources) = 1

\* The positions inside the GPU batch branch.
GpuBranchPositions ==
    {"gpu_mode_guard", "gpu_maps", "probe", "parse_ligands", "batch_loop",
     "fill_batch", "run_batch"}

\* C9: in the GPU batch branch an output directory was supplied and was
\* checked to exist.
C9_GpuBranchHasCheckedDir ==
    pc \in GpuBranchPositions => ("dir" \in vm /\ "dir" \in opened)

\* C10 as claimed: with receptor and maps both supplied, no file is opened
\* and no directory inspected at any point of the run.
C10_NoFileIOAtAll ==
    ("receptor" \in vm /\ "maps" \in vm) => opened = {}

\* C10 amended: with receptor and maps both supplied, the only file the run
\* may open is the configuration file named by --config (read before
\* validation starts); nothing else is opened, no directory is inspected, no
\* engine call is made, and validation, once reached, fails on this rule.
C10_OnlyConfigFileBeforeFailure ==
    ("receptor" \in vm /\ "maps" \in vm) =>
        /\ opened \subseteq {"config"}
        /\ calls = <<>>
        /\ pc \in {"parse_config_file", "info", "receptor_maps", "done"}
        /\ ValidationOver => outcome = "receptor_and_maps"

\* C10 witness: the run was rejected for receptor with maps after it had
\* read its configuration file.
C10_Witness ==
    /\ outcome = "receptor_and_maps"
    /\ exit_code = 1
    /\ opened = {"config"}

\* ------------------------------------------------------- engine calls
\* The names of the calls made so far.
Called == {calls[i] : i \in 1..Len(calls)}

\* An operation was called.
HasCall(op) == \E i \in 1..Len(calls) : calls[i] = op

\* How many times an operation was called.
TimesCalled(op) == Cardinality({i \in 1..Len(calls) : calls[i] = op})

\* The calls that load a receptor or maps, construct or use an engine.
EngineFiles == {"receptor", "maps", "ligand", "ligand_index"}

\* C11: every validation failure ends the process with exit code 1 before
\* any receptor, map or engine operation: no Vina object, no set_receptor,
\* no load_maps / compute_vina_maps, no search, none of their files opened.
C11_ValidationFailsFast ==
    ValidationFailed =>
        /\ exit_code = 1
        /\ calls = <<>>
        /\ opened \cap EngineFiles = {}
        /\ receptor_atom_numbers = 0

\* C11 witness: the last validation rule (several ligands without --out)
\* rejected the run after the output directory had been inspected.
C11_Witness ==
    /\ outcome = "output_name_missing"
    /\ exit_code = 1
    /\ "dir" \in opened

\* The positions of the GPU branch after its mode guard.
GpuWorkPositions == GpuBranchPositions \ {"gpu_mode_guard"}

\* The engine calls of the GPU branch.
GpuCalls ==
    {"enable_gpu", "Vina(v)", "set_ligand_from_object_gpu", "global_search_gpu",
     "write_poses_gpu"}

\* C12: when the GPU batch branch is selected with randomize_only,
\* score_only or local_only set, the process returns 0 without running: no
\* device probe, no ligand parsing, no batch, no global_search_gpu, no pose
\* file.
C12_GpuModeGuardReturnsZero ==
    (Branch(vm) = "gpu" /\ (randomize_only \/ score_only \/ local_only)) =>
        /\ pc \notin GpuWorkPositions
        /\ Called \cap GpuCalls = {}
        /\ max_memory = 0 /\ task = <<>> /\ all_ligands = <<>>
        /\ "ligand" \notin opened
        /\ batches = <<>> /\ gpu_out_name = <<>>
        /\ (pc = "done" /\ "Vina" \in Called) =>
               (exit_code = 0 /\ outcome = "not_available_under_gpu_batch")

\* C12 witness: a GPU batch run with only local_only set returned at the
\* guard.
C12_Witness ==
    /\ outcome = "not_available_under_gpu_batch"
    /\ exit_code = 0
    /\ local_only /\ ~score_only /\ ~randomize_only

\* The terminal operations of the single-ligand path.
TerminalOps ==
    {"randomize", "score", "optimize", "global_search", "write_pose",
     "write_poses", "show_score"}

IsTerminalOp(c) == c \in TerminalOps

\* The terminal operations called so far, in order.
TerminalCalls == SelectSeq(calls, IsTerminalOp)

\* C13: a finished single-ligand run made the calls of exactly one mode,
\* chosen by the priority randomize_only > score_only > local_only > global
\* search, and no terminal operation is called before that.
C13_OneModeByPriority ==
    Branch(vm) = "single" =>
        IF pc = "done" /\ outcome = "single_done"
        THEN /\ randomize_only => TerminalCalls = <<"randomize", "write_pose">>
             /\ (~randomize_only /\ score_only) =>
                    TerminalCalls = <<"score", "show_score">>
             /\ (~randomize_only /\ ~score_only /\ local_only) =>
                    TerminalCalls = <<"optimize", "write_pose", "show_score">>
             /\ (~randomize_only /\ ~score_only /\ ~local_only) =>
                    TerminalCalls = <<"global_search", "write_poses">>
        ELSE TerminalCalls = <<>>

\* C13 witness: a single-ligand run with all three flags set finished.
C13_Witness ==
    /\ outcome = "single_done"
    /\ randomize_only /\ score_only /\ local_only

\* A finished single-ligand run that scored: --score_only, and no
\* --randomize_only to take priority over it.
ScoreOnlyRunDone ==
    /\ pc = "done" /\ outcome = "single_done"
    /\ score_only /\ ~randomize_only

\* C14 as claimed: a --score_only run of n ligands on the single-ligand path
\* produces n score reports and writes no pose file.
C14_OneReportPerLigand ==
    ScoreOnlyRunDone =>
        /\ TimesCalled("show_score") = Len(ligand_names)
        /\ Called \cap {"write_pose", "write_poses"} = {}

\* C14 amended: such a run loads the n ligands with one set_ligand_from_file
\* call, calls score and show_score once each (one report for the whole
\* set) and writes no pose file.
C14_OneReportPerRun ==
    ScoreOnlyRunDone =>
        /\ TimesCalled("set_ligand_from_file") = 1
        /\ TimesCalled("score") = 1
        /\ TimesCalled("show_score") = 1
        /\ Called \cap {"write_pose", "write_poses"} = {}

\* C14 witness: a --score_only run of the most ligands the model gives
\* finished.
C14_Witness ==
    /\ ScoreOnlyRunDone
    /\ Len(ligand_names) = MaxLigands

\* A list made of explicit --gpu_batch entries followed by index-file
\* entries, each kind in the order given.
ExplicitThenIndexed(list) ==
    \/ list = <<>>
    \/ LET k == Cardinality({i \in 1..Len(list) : list[i][1] = "gpu_batch"})
       IN  /\ list = Paths("gpu_batch", k) \o Paths("ligand_index", Len(list) - k)
           /\ "gpu_batch" \notin vm => k = 0
           /\ "ligand_index" \notin vm => k = Len(list)

PostProbePositions == {"parse_ligands", "batch_loop", "fill_batch", "run_batch"}

\* The GPU branch ran its probe (also true of a run that ended in it).
Probed ==
    \/ pc \in PostProbePositions
    \/ pc = "done" /\ outcome = "gpu_done"

\* C16: a ligand is appended to a batch only when the prediction for the
\* batch as it stands before the append is strictly below the budget; only
\* the first ligand of a batch may be accepted otherwise.
C16_AcceptedBelowBudget ==
    [][batch_size' = batch_size + 1 =>
          \/ batch_size = 0
          \/ predict_peak_memory(batch_size, exhaustiveness, all_atom2_numbers,
                                 use_v100, ad4) * 100 < max_memory]_vars

\* C16 witness: a second ligand was accepted into a batch.
C16_Witness ==
    /\ pc = "fill_batch"
    /\ batch_size >= 2

\* A step taken after the probe leaves the budget and the device class alone.
LoopKeepsBudget ==
    pc \in PostProbePositions =>
        (max_memory' = max_memory /\ use_v100' = use_v100)

\* C17: with a device present the budget is 95% of the available MiB,
\* replaced by --max_gpu_memory exactly when that is positive and smaller
\* (hundredths of a MiB); the batch loop changes neither the budget nor the
\* device class.
C17_BudgetProbedOnce ==
    /\ [](Probed /\ deviceCount > 0 =>
            max_memory =
                IF max_gpu_memory > 0 /\ max_gpu_memory * 100 < avail * 95
                THEN max_gpu_memory * 100
                ELSE avail * 95)
    /\ [][LoopKeepsBudget]_vars

\* C17 witness: on a device, a budget set by the ceiling was used for two
\* non-empty batches.
C17_Witness ==
    /\ deviceCount > 0
    /\ max_gpu_memory > 0 /\ max_memory = max_gpu_memory * 100
    /\ Len(batches) >= 2
    /\ \A k \in 1..Len(batches) : BatchSize(k) >= 1

\* C18: with no device the scheduler uses the budget and the predictor
\* coefficients of the low-memory device class.
C18_NoDeviceLowMemoryClass ==
    (Probed /\ deviceCount = 0) =>
        /\ ~use_v100
        /\ max_memory < 1700000

\* ------------------------------------------------- receptor and maps
\* The engine was constructed and the receptor step is over.
ReceptorStepOver == HasCall("Vina") /\ pc # "set_receptor"

\* C19 as claimed: set_receptor is called only if a receptor or flex path
\* was supplied, and never when the scoring function is ad4.
C19_NoSetReceptorForAd4 ==
    HasCall("set_receptor") =>
        /\ "receptor" \in vm \/ "flex" \in vm
        /\ sf_name # "ad4"

\* C19 amended: set_receptor is called, once, exactly when a receptor or
\* flex path was supplied; with ad4 that is exactly when --flex was
\* supplied (validation rejected any receptor path).
C19_SetReceptorIffSupplied ==
    IF HasCall("set_receptor")
    THEN /\ TimesCalled("set_receptor") = 1
         /\ ReceptorStepOver
         /\ "receptor" \in vm \/ "flex" \in vm
         /\ sf_name = "ad4" => ("flex" \in vm /\ "receptor" \notin vm)
    ELSE ReceptorStepOver => ("receptor" \notin vm /\ "flex" \notin vm)

\* C19 witness: an ad4 run with --flex called set_receptor.
C19_Witness ==
    /\ sf_name = "ad4"
    /\ "flex" \in vm
    /\ HasCall("set_receptor")

\* The calls that make maps ready, and the scoring and search operations.
MapOps == {"load_maps", "compute_vina_maps"}
ScoringOps ==
    {"randomize", "score", "optimize", "global_search", "global_search_gpu"}

\* C20: every scoring or search call is preceded by a load_maps or
\* compute_vina_maps call.
C20_MapsBeforeScoring ==
    \A i \in 1..Len(calls) :
        calls[i] \in ScoringOps => \E j \in 1..(i - 1) : calls[j] \in MapOps

\* C20 witness: a vinardo GPU run loaded its maps and searched a batch.
C20_Witness ==
    /\ sf_name = "vinardo"
    /\ "load_maps" \in Called
    /\ "global_search_gpu" \in Called

\* ------------------------------------------------- the batch sequence
IsBatchCall(c) ==
    c \in {"set_ligand_from_object_gpu", "global_search_gpu", "write_poses_gpu"}

\* The engine calls made on batches so far, in order.
BatchCallsMade == SelectSeq(calls, IsBatchCall)

\* The call in place i of a sequence that repeats load, search, write.
ExpectedBatchCall(i) ==
    IF i % 3 = 1 THEN "set_ligand_from_object_gpu"
    ELSE IF i % 3 = 2 THEN "global_search_gpu"
    ELSE "write_poses_gpu"

\* The positions at which a batch has just been run (calls and batches
\* change nowhere else in the loop).
BetweenBatches == pc = "batch_loop" \/ SchedulerFinished

\* C21: batches run one after the other: the batch calls made are load,
\* search, write, once each per batch and in this order; batch k has index
\* k; a batch is assembled only when all earlier batches have written
\* their poses.
C21_BatchesSequential ==
    /\ BetweenBatches =>
          /\ Len(BatchCallsMade) = 3 * Len(batches)
          /\ \A i \in 1..Len(BatchCallsMade) :
                 BatchCallsMade[i] = ExpectedBatchCall(i)
          /\ \A k \in 1..Len(batches) : batches[k].id = k
          /\ batch_id = Len(batches)
    /\ pc \in {"fill_batch", "run_batch"} =>
          /\ Len(batches) = batch_id - 1
          /\ calls[Len(calls)] = "Vina(v)"
          /\ batch_id = 1 \/ calls[Len(calls) - 1] = "write_poses_gpu"

\* C21 witness: a second batch is being assembled after the first was run.
C21_Witness ==
    /\ pc = "fill_batch"
    /\ batch_id = 2
    /\ batch_size = 1
    /\ BatchSize(1) >= 1

\* ------------------------------------------------ the parsed collection
\* The parsing tasks that have appended their result.
TasksDone == {i \in 1..Len(task) : task[i] = "done"}

\* Every entry pairs a path with the model parsed from that path.
EntriesPaired ==
    \A j \in 1..Len(all_ligands) :
        all_ligands[j].second = ParsedModel(all_ligands[j].first)

\* C22: during the parse the collection holds one entry per finished task;
\* after it, one entry per input path, each pairing the path with its own
\* model; no batch exists before every task has finished.
C22_OneEntryPerPath ==
    /\ pc = "parse_ligands" =>
          /\ Len(all_ligands) = Cardinality(TasksDone)
          /\ \A i \in TasksDone :
                 \E j \in 1..Len(all_ligands) :
                     all_ligands[j].first = gpu_ligand_names[i]
          /\ EntriesPaired
          /\ batches = <<>> /\ batch_id = 0 /\ batch_ligands = <<>>
    /\ (pc \in {"batch_loop", "fill_batch", "run_batch"} \/ SchedulerFinished) =>
          /\ Len(all_ligands) = Len(gpu_ligand_names)
          /\ \A i \in 1..Len(gpu_ligand_names) :
                 Cardinality({j \in 1..Len(all_ligands) :
                                 all_ligands[j].first = gpu_ligand_names[i]}) = 1
          /\ (pc = "batch_loop" /\ batch_id = 0) => EntriesPaired

\* C22 witness: three tasks finished in an order that is not the input
\* order and the scheduler is about to start.
C22_Witness ==
    /\ pc = "batch_loop" /\ batch_id = 0
    /\ Len(all_ligands) = 3
    /\ all_ligands[1].first = gpu_ligand_names[3]

\* C23: in every batch the k-th output path is the default output name of
\* the source of the k-th model, and the count given to global_search_gpu
\* is the number of models.
C23_OutputsMatchModels ==
    BetweenBatches =>
        \A k \in 1..Len(batches) :
            /\ batches[k].count = Len(batches[k].models)
            /\ Len(batches[k].out) = Len(batches[k].models)
            /\ \A m \in 1..Len(batches[k].models) :
                   batches[k].out[m] =
                       DefaultOutput(batches[k].models[m].source, "dir" \in vm)

\* C23 witness: two batches were run on a collection that is not in input
\* order.
C23_Witness ==
    /\ pc = "batch_loop"
    /\ Len(batches) = 2
    /\ BatchSize(1) >= 1 /\ BatchSize(2) >= 1
    /\ all_ligands[1].first # gpu_ligand_names[1]

\* ----------------------------------------------------------- branches
\* Ligand mode: --ligand and no batch option.
LigandMode == "ligand" \in vm /\ "batch" \notin vm /\ "gpu_batch" \notin vm

\* C24: in ligand mode --dir is ignored: the directory is not inspected
\* and the run is never rejected because of it.
C24_DirIgnoredInLigandMode ==
    LigandMode =>
        /\ "dir" \notin opened
        /\ outcome # "dir_does_not_exist"

\* A run that passed validation and returned 0 without the
\* unsupported-mode notice.
RanToSuccess ==
    /\ pc = "done" /\ exit_code = 0
    /\ outcome \notin {"help", "help_advanced", "version",
                       "not_available_under_gpu_batch"}

\* Some ligand list held a path.
SomeLigandSource ==
    \/ ligand_names # <<>>
    \/ batch_ligand_names # <<>>
    \/ gpu_batch_ligand_names # <<>>
    \/ gpu_ligand_names # <<>>

\* C25: a run with a populated ligand source that returns 0 that way has
\* loaded its ligands into an engine.
C25_SuccessfulRunUsedItsLigands ==
    (RanToSuccess /\ SomeLigandSource) =>
        \/ HasCall("set_ligand_from_file")
        \/ HasCall("set_ligand_from_object_gpu")
====
